---- MODULE Spec2Model ----
(***************************************************************************)
(* Model of src/pdfplumber.py: the PDFAnalyzer class (backend selection,   *)
(* the three backend-specific structuring passes and the shared attachment *)
(* rule _add_content) together with the part of main() that drives it.     *)
(*                                                                         *)
(* Strings are modelled as tuples whose first element is a literal and     *)
(* whose other elements are the numbers formatted into it:                 *)
(*   f"Page {n}" is <<"Page", n>>, the empty string is <<>>, the stripped  *)
(*   text of the k-th primitive of the document is <<"span", k>>.          *)
(* A font size is the decimal <<whole, hundredths>>.                       *)
(***************************************************************************)
EXTENDS Integers, Sequences, FiniteSets, TLC

\* ---------------------------------------------------------------- bounds
MaxItems == 3      \* primitives (spans, image blocks, tables, items) per document

\* ------------------------------------------------------ program constants
section_font_min         == 16
section_bold_font_min    == 12
subsection_font_min      == 14
subsection_bold_font_min == 11
BoldBit                  == 16
TitleChars               == 100

None == <<>>
Backends == {"docling", "pymupdf", "pdfplumber"}

\* ------------------------------------------------------------ input sets
\* font sizes at and just above every threshold of the classification
FontSizes == { <<w, h>> : w \in {subsection_bold_font_min, section_bold_font_min,
                                 subsection_font_min, section_font_min},
                          h \in {0, 1} }
\* span["flags"]: plain, bold, bold+italic
FontFlags == {0, 16, 18}
\* first_page.get_text(): its length and the position of its first line
\* break (0: none)
FirstTexts == { [len |-> 0,   nl |-> 0], [len |-> 5,   nl |-> 1],
                [len |-> 120, nl |-> 3], [len |-> 120, nl |-> 0],
                [len |-> 120, nl |-> 101] }
MetaTitles == { <<>>, <<"meta_title">> }
\* doc.page_count / len(pdf.pages) / len(doc.pages)
PageCounts == {1, 2}

VARIABLES
    LIBRARIES_STATUS,    \* module global, set by the guarded imports
    pc,                  \* position of main() / of the running pass
    method,              \* PDFAnalyzer.method
    structure,           \* the dict under construction / returned
    current_section,     \* 0: None, else index into structure.sections
    current_subsection,  \* None, else <<section index, subsection index>>
    page_num,            \* enumerate(doc) / enumerate(pdf.pages)
    table_num,           \* enumerate(tables) of the current page
    last,                \* the primitive most recently taken from the backend
    trace,               \* history: per primitive, the branch the loop took
    raised,              \* the exception that left the pass, None if none
    docling_title,       \* position of the first title-labelled Docling item
    seed,                \* what the opened file offered for the title
    runs                 \* two calls of a structuring pass: per call the
                         \* events it consumed and the locals of its frame

vars == << LIBRARIES_STATUS, pc, method, structure, current_section,
           current_subsection, page_num, table_num, last, trace, raised,
           docling_title, seed, runs >>

\* -------------------------------------------------------------- helpers
Min(a, b) == IF a < b THEN a ELSE b

\* font_size > t for a decimal font size and an integer threshold
Gt(size, t) == size[1] > t \/ (size[1] = t /\ size[2] > 0)

\* font_flags & 2**4
is_bold(font_flags) == ((font_flags \div BoldBit) % 2) * BoldBit

\* variant: the section thresholds compared with >=
IsSectionHeading_ge(font_size, font_flags) ==
    font_size[1] >= section_font_min
      \/ (is_bold(font_flags) # 0 /\ font_size[1] >= section_bold_font_min)

\* line 124
IsSectionHeading(font_size, font_flags) ==
    Gt(font_size, section_font_min)
      \/ (is_bold(font_flags) # 0 /\ Gt(font_size, section_bold_font_min))

\* line 133, without the `and current_section` conjunct
IsSubsectionLevel(font_size, font_flags) ==
    Gt(font_size, subsection_font_min)
      \/ (is_bold(font_flags) # 0 /\ Gt(font_size, subsection_bold_font_min))

\* variant: a subsection-level heading without a current section is
\* promoted to a section instead of demoted to body text
Classify_promote(font_size, font_flags, section) ==
    IF IsSectionHeading(font_size, font_flags) THEN "section"
    ELSE IF IsSubsectionLevel(font_size, font_flags)
         THEN (IF section # 0 THEN "subsection" ELSE "section")
    ELSE "body"

\* lines 124-142: the branch taken for a non-empty span
Classify(font_size, font_flags, section) ==
    IF IsSectionHeading(font_size, font_flags) THEN "section"
    ELSE IF IsSubsectionLevel(font_size, font_flags) /\ section # 0 THEN "subsection"
    ELSE "body"

\* variant: the first line of the whole text, without the [:100] slice
FirstLine_nocut(first_text) ==
    LET k == IF first_text.nl > 0 THEN first_text.nl - 1 ELSE first_text.len
    IN  IF k = 0 THEN <<>> ELSE <<"first_text", k>>

\* first_text[:100].split('\n')[0]
FirstLine(first_text) ==
    LET cut == Min(first_text.len, TitleChars)
        k   == IF first_text.nl > 0 /\ first_text.nl <= cut
               THEN first_text.nl - 1 ELSE cut
    IN  IF k = 0 THEN <<>> ELSE <<"first_text", k>>

\* lines 82-86
PymupdfTitle(meta_title, first_text) ==
    IF meta_title # <<>> THEN meta_title
    ELSE IF first_text.len > 0 THEN FirstLine(first_text)
    ELSE <<"Document sans titre">>

\* ----------------------------------------------------- tree manipulation
\* a str content item (the other content items are dicts)
Paragraph(text) == [text |-> text]

NewSection(title) == [title |-> title, subsections |-> <<>>]
NewSubsection(title) == [title |-> title, content |-> <<>>]

\* variant: the new section is inserted at the front
AppendSection_front(secs, title) == << NewSection(title) >> \o secs

\* lines 125-129 / 266-270: structure["sections"].append({...})
AppendSection(secs, title) == Append(secs, NewSection(title))

\* variant: the subsections list is replaced instead of extended
AppendSubsection_replace(secs, i, sub) ==
    [secs EXCEPT ![i].subsections = << sub >>]

\* lines 134-138 / 280-284: section["subsections"].append(...)
AppendSubsection(secs, i, sub) ==
    [secs EXCEPT ![i].subsections = Append(@, sub)]

\* variant: the item is inserted at the front of the content list
AppendContent_front(secs, i, j, content) ==
    [secs EXCEPT ![i].subsections[j].content = << content >> \o @]

\* lines 315, 322, 332: [...]["content"].append(content)
AppendContent(secs, i, j, content) ==
    [secs EXCEPT ![i].subsections[j].content = Append(@, content)]

\* the three branches of _add_content, lines 314-315, 316-322, 323-332
AttachToSubsection(content, secs, subsection) ==
    [raised |-> None,
     sections |-> AppendContent(secs, subsection[1], subsection[2], content)]

AttachToSection(content, secs, section, create) ==
    LET s1 == IF create
              THEN AppendSubsection(secs, section, NewSubsection(<<"Contenu">>))
              ELSE secs
        j  == Len(s1[section].subsections)
    IN  IF j = 0
        THEN [raised |-> <<"IndexError">>, sections |-> s1]
        ELSE [raised |-> None, sections |-> AppendContent(s1, section, j, content)]

AttachOrphan(content, secs, create) ==
    LET s1 == IF create
              THEN Append(secs, [title |-> <<"Contenu principal">>,
                                 subsections |-> << NewSubsection(<<"Introduction">>) >>])
              ELSE secs
        i  == Len(s1)
    IN  IF i = 0 \/ Len(s1[i].subsections) = 0
        THEN [raised |-> <<"IndexError">>, sections |-> s1]
        ELSE [raised |-> None,
              sections |-> AppendContent(s1, i, Len(s1[i].subsections), content)]

\* variant: the orphan branch without lines 324-331 (no default pair)
_add_content_no_default(content, secs, section, subsection) ==
    IF subsection # None THEN AttachToSubsection(content, secs, subsection)
    ELSE IF section # 0
    THEN AttachToSection(content, secs, section, secs[section].subsections = <<>>)
    ELSE AttachOrphan(content, secs, FALSE)

\* variant: the orphan branch without the test of line 324
_add_content_always_default(content, secs, section, subsection) ==
    IF subsection # None THEN AttachToSubsection(content, secs, subsection)
    ELSE IF section # 0
    THEN AttachToSection(content, secs, section, secs[section].subsections = <<>>)
    ELSE AttachOrphan(content, secs, TRUE)

\* variant: the section branch without the test of line 317
_add_content_new_contenu(content, secs, section, subsection) ==
    IF subsection # None THEN AttachToSubsection(content, secs, subsection)
    ELSE IF section # 0
    THEN AttachToSection(content, secs, section, TRUE)
    ELSE AttachOrphan(content, secs, secs = <<>>)

\* variant: content without a section is dropped
_add_content_drop_orphan(content, secs, section, subsection) ==
    IF subsection # None THEN AttachToSubsection(content, secs, subsection)
    ELSE IF section # 0
    THEN AttachToSection(content, secs, section, secs[section].subsections = <<>>)
    ELSE [raised |-> None, sections |-> secs]

\* variant: the section branch attaches under structure["sections"][0]
_add_content_first_section(content, secs, section, subsection) ==
    IF subsection # None THEN AttachToSubsection(content, secs, subsection)
    ELSE IF section # 0
    THEN AttachToSection(content, secs, 1, secs[1].subsections = <<>>)
    ELSE AttachOrphan(content, secs, secs = <<>>)

\* variant: the orphan branch adds a fresh "Introduction" subsection to the
\* existing default section for every item
_add_content_orphan_subsection(content, secs, section, subsection) ==
    IF subsection # None THEN AttachToSubsection(content, secs, subsection)
    ELSE IF section # 0
    THEN AttachToSection(content, secs, section, secs[section].subsections = <<>>)
    ELSE IF secs = <<>> THEN AttachOrphan(content, secs, TRUE)
    ELSE AttachOrphan(content,
                      AppendSubsection(secs, Len(secs), NewSubsection(<<"Introduction">>)),
                      FALSE)

\* variant: the section branch without line 322 when it created the default
\* subsection
_add_content_no_append(content, secs, section, subsection) ==
    IF subsection # None THEN AttachToSubsection(content, secs, subsection)
    ELSE IF section # 0
    THEN (IF secs[section].subsections = <<>>
          THEN [raised |-> None,
                sections |-> AppendSubsection(secs, section, NewSubsection(<<"Contenu">>))]
          ELSE AttachToSection(content, secs, section, FALSE))
    ELSE AttachOrphan(content, secs, secs = <<>>)

\* lines 312-332.  The result is the sections list after the call and the
\* exception raised by indexing [-1] of an empty list, if any.
_add_content(content, secs, section, subsection) ==
    IF subsection # None THEN AttachToSubsection(content, secs, subsection)
    ELSE IF section # 0
    THEN AttachToSection(content, secs, section, secs[section].subsections = <<>>)
    ELSE AttachOrphan(content, secs, secs = <<>>)

\* ----------------------------------------------------------------- Init
\* lines 97-101 / 254-259: the locals of a call before its loop
InitFrame == [sections |-> <<>>, current_section |-> 0, current_subsection |-> None]

InitRuns == [r \in 1..2 |-> [events |-> <<>>, frame |-> InitFrame]]

Init ==
    /\ LIBRARIES_STATUS \in [Backends -> BOOLEAN]
    /\ pc = "main"
    /\ method = None
    /\ structure = None
    /\ current_section = 0
    /\ current_subsection = None
    /\ page_num = 0
    /\ table_num = 0
    /\ last = None
    /\ trace = <<>>
    /\ raised = None
    /\ docling_title = 0
    /\ seed = None
    /\ runs = InitRuns

\* ------------------------------------------------------------ main, init
\* lines 414-416: the startup check of main()
MainCheckLibraries ==
    /\ pc = "main"
    /\ pc' = IF \E b \in Backends : LIBRARIES_STATUS[b]
             THEN "idle" ELSE "library_error"
    /\ UNCHANGED << LIBRARIES_STATUS, method, structure, current_section,
                    current_subsection, page_num, table_num, last, trace,
                    raised, docling_title, seed >>
    /\ UNCHANGED runs

\* lines 44-63: the value __init__ leaves in self.method
SelectMethod(status, converter_ok) ==
    IF status["pymupdf"] THEN <<"pymupdf">>
    ELSE IF status["pdfplumber"] THEN <<"pdfplumber">>
    ELSE IF status["docling"]
         THEN (IF converter_ok THEN <<"docling">> ELSE None)
    ELSE None

\* lines 43-63: PDFAnalyzer(), run when an uploaded file is analysed
\* (line 444).  converter_ok: whether DocumentConverter(...) returns.
PDFAnalyzerInit ==
    /\ pc = "idle"
    /\ \E converter_ok \in BOOLEAN :
         method' = SelectMethod(LIBRARIES_STATUS, converter_ok)
    /\ pc' = "analyze_pdf"
    /\ UNCHANGED << LIBRARIES_STATUS, structure, current_section,
                    current_subsection, page_num, table_num, last, trace,
                    raised, docling_title, seed >>
    /\ UNCHANGED runs

\* lines 73-74 with the handler of lines 456-458
AnalyzeNoMethod ==
    /\ pc = "analyze_pdf"
    /\ method = None
    /\ raised' = <<"Aucune bibliotheque PDF disponible pour l'analyse">>
    /\ pc' = "analysis_error"
    /\ UNCHANGED << LIBRARIES_STATUS, method, structure, current_section,
                    current_subsection, page_num, table_num, last, trace,
                    docling_title, seed >>
    /\ UNCHANGED runs

\* ------------------------------------------------------- the PyMuPDF pass
\* variant: the subject entry is left out
PymupdfMetadata_no_subject(page_count) ==
    [num_pages |-> page_count,
     author |-> <<"meta_author">>,
     extraction_date |-> <<"now">>,
     extraction_method |-> <<"PyMuPDF">>]

\* lines 90-96
PymupdfMetadata(page_count) ==
    [num_pages |-> page_count,
     author |-> <<"meta_author">>,
     subject |-> <<"meta_subject">>,
     extraction_date |-> <<"now">>,
     extraction_method |-> <<"PyMuPDF">>]

\* lines 80-101: open the document, resolve the title, build the skeleton
PymupdfOpen ==
    /\ pc = "analyze_pdf"
    /\ method = <<"pymupdf">>
    /\ \E meta_title \in MetaTitles, first_text \in FirstTexts,
          page_count \in PageCounts :
         \* with a metadata title the first page's text only matters as
         \* empty or not
         /\ meta_title # <<>> => first_text.nl = 0
         /\ seed' = [title |-> meta_title, first_text |-> first_text]
         /\ structure' =
              [title    |-> PymupdfTitle(meta_title, first_text),
               metadata |-> PymupdfMetadata(page_count),
               sections |-> <<>>]
    /\ current_section' = 0
    /\ current_subsection' = None
    /\ page_num' = 0
    /\ table_num' = 0
    /\ pc' = "pymupdf_blocks"
    /\ UNCHANGED << LIBRARIES_STATUS, method, last, trace, raised, docling_title >>
    /\ UNCHANGED runs

\* the outcome of one _add_content call of a pass, lines 142/151/170
AddContentStep(content, next_pc) ==
    LET r == _add_content(content, structure.sections, current_section, current_subsection)
    IN  /\ structure' = [structure EXCEPT !.sections = r.sections]
        /\ raised' = r.raised
        /\ pc' = IF r.raised = None THEN next_pc ELSE "analysis_error"

\* the first page has text spans only if its get_text() is not empty
FirstPageHasText == seed.first_text.len > 0

\* lines 109-142: one span of a text block
PymupdfSpan ==
    /\ pc = "pymupdf_blocks"
    /\ Len(trace) < MaxItems
    /\ page_num = 0 => FirstPageHasText
    /\ \E blank \in BOOLEAN, font_size \in FontSizes, font_flags \in FontFlags :
         LET text == IF blank THEN <<>> ELSE <<"span", Len(trace) + 1>>
             cls  == IF text = <<>> THEN "skip"
                     ELSE Classify(font_size, font_flags, current_section)
         IN  /\ blank => (font_size = <<section_font_min, 1>> /\ font_flags = 0)
             /\ last' = [type |-> "text", text |-> text, size |-> font_size,
                         flags |-> font_flags]
             /\ trace' = Append(trace, [type |-> "text", cls |-> cls,
                                        content |-> Paragraph(text)])
             /\ CASE cls = "skip" ->
                       UNCHANGED << structure, current_section, current_subsection,
                                    raised, pc >>
                  [] cls = "section" ->
                       /\ structure' = [structure EXCEPT
                                          !.sections = AppendSection(@, text)]
                       /\ current_section' = Len(structure.sections) + 1
                       /\ current_subsection' = None
                       /\ UNCHANGED << raised, pc >>
                  [] cls = "subsection" ->
                       /\ structure' = [structure EXCEPT
                                          !.sections = AppendSubsection(@, current_section,
                                                           NewSubsection(text))]
                       /\ current_subsection' =
                            << current_section,
                               Len(structure.sections[current_section].subsections) + 1 >>
                       /\ UNCHANGED << current_section, raised, pc >>
                  [] cls = "body" ->
                       /\ AddContentStep(Paragraph(text), "pymupdf_blocks")
                       /\ UNCHANGED << current_section, current_subsection >>
    /\ UNCHANGED << LIBRARIES_STATUS, method, page_num, table_num, docling_title, seed >>
    /\ UNCHANGED runs

\* lines 144-151: an image block
PymupdfImageBlock ==
    /\ pc = "pymupdf_blocks"
    /\ Len(trace) < MaxItems
    /\ LET image_info == [image |-> [description |-> <<"Image detectee">>,
                                     position |-> <<"page", page_num + 1>>]]
       IN  /\ last' = [type |-> "image"]
           /\ trace' = Append(trace, [type |-> "image", cls |-> "body",
                                      content |-> image_info])
           /\ AddContentStep(image_info, "pymupdf_blocks")
    /\ UNCHANGED << LIBRARIES_STATUS, method, current_section, current_subsection,
                    page_num, table_num, docling_title, seed >>
    /\ UNCHANGED runs

\* lines 154-170: one table of page.find_tables(), after the page's blocks.
\* nrows: the number of rows table.extract() yields.
PymupdfTable ==
    /\ pc \in {"pymupdf_blocks", "pymupdf_tables"}
    /\ Len(trace) < MaxItems
    /\ \E nrows \in {0, 2} :
         LET table_data == [type |-> "table",
                            caption |-> <<"Tableau", table_num + 1, page_num + 1>>,
                            headers |-> IF nrows > 0 THEN <<"row", 1>> ELSE <<>>,
                            rows |-> IF nrows > 0 THEN nrows - 1 ELSE 0]
         IN  /\ last' = [type |-> "table"]
             /\ trace' = Append(trace, [type |-> "table", cls |-> "body",
                                        content |-> table_data])
             /\ AddContentStep(table_data, "pymupdf_tables")
    /\ table_num' = table_num + 1
    /\ UNCHANGED << LIBRARIES_STATUS, method, current_section, current_subsection,
                    page_num, docling_title, seed >>
    /\ UNCHANGED runs

\* line 103: the page loop advances; lines 172-173 after the last page
PymupdfNextPage ==
    /\ pc \in {"pymupdf_blocks", "pymupdf_tables"}
    /\ page_num' = page_num + 1
    /\ table_num' = 0
    /\ pc' = IF page_num + 1 < structure.metadata.num_pages
             THEN "pymupdf_blocks" ELSE "done"
    /\ UNCHANGED << LIBRARIES_STATUS, method, structure, current_section,
                    current_subsection, last, trace, raised, docling_title, seed >>
    /\ UNCHANGED runs

\* ----------------------------------------------------- the pdfplumber pass
\* what one page yields: the chunks of extract_text().split('\n\n') (TRUE: a
\* chunk that is empty once stripped), the row counts of extract_tables(),
\* the number of page.images
PageChunks == UNION { [1..k -> BOOLEAN] : k \in 0..2 }
PageTables == { <<>>, <<0>>, <<2>>, <<0, 2>> }
PageImages == 0..1

\* lines 180, 192-193.  Title: the 'Title' entry of pdf.metadata, None when
\* the key is missing, <<"">> when it is the empty string
PdfplumberTitle(has_metadata, Title) ==
    IF has_metadata /\ Title # None
    THEN (IF Title = <<"">> THEN <<>> ELSE Title)
    ELSE <<"Document PDF">>

\* lines 181-185, 191-195
PdfplumberMetadata(num_pages, has_metadata) ==
    LET base == [num_pages |-> num_pages,
                 extraction_date |-> <<"now">>,
                 extraction_method |-> <<"pdfplumber">>]
    IN  IF has_metadata
        THEN [k \in DOMAIN base \cup {"author", "subject"} |->
                IF k = "author" THEN <<"meta_author">>
                ELSE IF k = "subject" THEN <<"meta_subject">>
                ELSE base[k]]
        ELSE base

\* lines 179-195: the skeleton and the metadata of the opened file
PdfplumberOpen ==
    /\ pc = "analyze_pdf"
    /\ method = <<"pdfplumber">>
    /\ \E has_metadata \in BOOLEAN,
          Title \in {None, <<"">>, <<"meta_title">>},
          num_pages \in PageCounts :
         /\ ~has_metadata => Title = None
         /\ seed' = [has_metadata |-> has_metadata, Title |-> Title]
         /\ structure' =
              [title    |-> PdfplumberTitle(has_metadata, Title),
               metadata |-> PdfplumberMetadata(num_pages, has_metadata),
               sections |-> <<>>]
    /\ page_num' = 0
    /\ table_num' = 0
    /\ pc' = "pdfplumber_pages"
    /\ UNCHANGED << LIBRARIES_STATUS, method, current_section, current_subsection,
                    last, trace, raised, docling_title >>
    /\ UNCHANGED runs

\* the entries a page adds to the history, in processing order
RECURSIVE ChunkEntries(_, _, _)
ChunkEntries(chunks, i, k) ==
    IF i > Len(chunks) THEN <<>>
    ELSE IF chunks[i]
         THEN << [type |-> "text", cls |-> "skip", content |-> Paragraph(<<>>)] >>
                \o ChunkEntries(chunks, i + 1, k)
         ELSE << [type |-> "text", cls |-> "body",
                   content |-> Paragraph(<<"span", k + 1>>)] >>
                \o ChunkEntries(chunks, i + 1, k + 1)

\* lines 217-226: a table is kept when it has at least one row
TableEntries(tables) ==
    [i \in 1..Len(tables) |->
       [type |-> "table",
        cls |-> IF tables[i] > 0 THEN "body" ELSE "skip",
        content |-> [type |-> "table", caption |-> <<"Tableau", i>>,
                     headers |-> IF tables[i] > 0 THEN <<"row", 1>> ELSE <<>>,
                     rows |-> IF tables[i] > 1 THEN tables[i] - 1 ELSE 0]]]

\* lines 229-237
ImageEntries(images, page) ==
    [i \in 1..images |->
       [type |-> "image", cls |-> "body",
        content |-> [image |-> [description |-> <<"Image", i>>,
                                position |-> <<"page", page + 1>>]]]]

\* variant: the paragraphs are not appended, only tables and images
RECURSIVE Kept_no_text(_)
Kept_no_text(entries) ==
    IF entries = <<>> THEN <<>>
    ELSE IF Head(entries).cls = "body" /\ Head(entries).type # "text"
         THEN << Head(entries).content >> \o Kept_no_text(Tail(entries))
         ELSE Kept_no_text(Tail(entries))

\* the content items of a list of history entries
RECURSIVE Kept(_)
Kept(entries) ==
    IF entries = <<>> THEN <<>>
    ELSE IF Head(entries).cls = "body"
         THEN << Head(entries).content >> \o Kept(Tail(entries))
         ELSE Kept(Tail(entries))

\* variant: the "Contenu" subsection is created only for a page with content
PageSection_lazy(page, content) ==
    [title |-> <<"Page", page + 1>>,
     subsections |-> IF content = <<>> THEN <<>>
                     ELSE << [title |-> <<"Contenu">>, content |-> content] >>]

\* lines 200-206 with the appends of lines 214, 226, 237
PageSection(page, content) ==
    [title |-> <<"Page", page + 1>>,
     subsections |-> << [title |-> <<"Contenu">>, content |-> content] >>]

\* lines 198-237: one page
PdfplumberPage ==
    /\ pc = "pdfplumber_pages"
    /\ page_num < structure.metadata.num_pages
    /\ \E chunks \in PageChunks, tables \in PageTables, images \in PageImages :
         LET entries == ChunkEntries(chunks, 1, Len(trace)) \o TableEntries(tables)
                          \o ImageEntries(images, page_num)
             section == PageSection(page_num, Kept(entries))
         IN  /\ Len(trace) + Len(entries) <= MaxItems
             /\ trace' = trace \o entries
             /\ last' = IF entries = <<>> THEN last
                        ELSE [type |-> entries[Len(entries)].type]
             /\ structure' = [structure EXCEPT !.sections = Append(@, section)]
    /\ page_num' = page_num + 1
    /\ UNCHANGED << LIBRARIES_STATUS, pc, method, current_section,
                    current_subsection, table_num, raised, docling_title, seed >>
    /\ UNCHANGED runs

\* line 239
PdfplumberReturn ==
    /\ pc = "pdfplumber_pages"
    /\ page_num = structure.metadata.num_pages
    /\ pc' = "done"
    /\ UNCHANGED << LIBRARIES_STATUS, method, structure, current_section,
                    current_subsection, page_num, table_num, last, trace,
                    raised, docling_title, seed >>
    /\ UNCHANGED runs

\* -------------------------------------------------------- the Docling pass
TitleLabels == {"title", "document_title"}
DoclingLabels == {"section_header", "title", "document_title", "paragraph",
                  "table", "figure", "list_item"}

\* lines 334-339, on a document whose first title-labelled item is the
\* title_pos-th (0: there is none)
_get_doc_title(title_pos, title_text) ==
    IF title_pos > 0 THEN title_text ELSE <<"Document sans titre">>

\* lines 249-253
DoclingMetadata(num_pages) ==
    [num_pages |-> num_pages,
     extraction_date |-> <<"now">>,
     extraction_method |-> <<"Docling">>]

\* lines 243-259
DoclingOpen ==
    /\ pc = "analyze_pdf"
    /\ method = <<"docling">>
    /\ \E title_pos \in 0..MaxItems, has_pages \in BOOLEAN, num_pages \in PageCounts :
         /\ has_pages \/ num_pages = 1
         /\ docling_title' = title_pos
         /\ seed' = [title_pos |-> title_pos]
         /\ structure' =
              [title    |-> _get_doc_title(title_pos, <<"span", title_pos>>),
               metadata |-> DoclingMetadata(IF has_pages THEN num_pages ELSE 0),
               sections |-> <<>>]
    /\ current_section' = 0
    /\ current_subsection' = None
    /\ pc' = "docling_items"
    /\ UNCHANGED << LIBRARIES_STATUS, method, page_num, table_num, last, trace,
                    raised >>
    /\ UNCHANGED runs

\* lines 341-343
_is_main_title(item) == item.level = 1

\* lines 261-305: one item of doc.iterate_items()
DoclingItem ==
    /\ pc = "docling_items"
    /\ Len(trace) < MaxItems
    /\ \E label \in DoclingLabels, level \in {0, 1, 2}, has_text \in BOOLEAN :
         LET k    == Len(trace) + 1
             text == IF has_text THEN <<"span", k>> ELSE <<>>
             item == [label |-> label, level |-> level, text |-> text]
             heading == label \in {"section_header", "header", "title"}
             cls  == IF heading
                     THEN (IF _is_main_title(item) THEN "section" ELSE "subsection")
                     ELSE IF label \in {"paragraph", "text", "table", "figure", "image"}
                          THEN "body" ELSE "skip"
             content ==
                 IF label = "table"
                 THEN [type |-> "table", caption |-> <<"caption", k>>,
                       headers |-> <<>>, rows |-> 0]
                 ELSE IF label = "figure"
                 THEN [image |-> [description |-> <<"caption", k>>,
                                  position |-> <<"page inconnue">>]]
                 ELSE Paragraph(text)
         IN  \* the document is the one whose title was read at line 248
             /\ (label \in TitleLabels) => (docling_title # 0 /\ k >= docling_title)
             /\ (k = docling_title) => (label \in TitleLabels /\ has_text)
             \* only headings carry a level, only text items an empty text
             /\ ~heading => level = 0
             /\ label \in {"table", "figure", "list_item", "document_title"} => has_text
             /\ last' = [type |-> label, text |-> text, level |-> level]
             /\ trace' = Append(trace, [type |-> label, cls |-> cls, content |-> content])
             /\ CASE cls = "skip" ->
                       UNCHANGED << structure, current_section, current_subsection,
                                    raised, pc >>
                  [] cls = "section" ->
                       /\ structure' = [structure EXCEPT
                                          !.sections = AppendSection(@, text)]
                       /\ current_section' = Len(structure.sections) + 1
                       /\ current_subsection' = None
                       /\ UNCHANGED << raised, pc >>
                  [] cls = "subsection" ->
                       LET s1  == IF current_section = 0
                                  THEN AppendSection(structure.sections,
                                                     <<"Section principale">>)
                                  ELSE structure.sections
                           sec == IF current_section = 0 THEN Len(s1)
                                  ELSE current_section
                       IN  /\ structure' = [structure EXCEPT
                                              !.sections = AppendSubsection(s1, sec,
                                                               NewSubsection(text))]
                           /\ current_section' = sec
                           /\ current_subsection' =
                                << sec, Len(s1[sec].subsections) + 1 >>
                           /\ UNCHANGED << raised, pc >>
                  [] cls = "body" ->
                       /\ AddContentStep(content, "docling_items")
                       /\ UNCHANGED << current_section, current_subsection >>
    /\ UNCHANGED << LIBRARIES_STATUS, method, page_num, table_num, docling_title, seed >>
    /\ UNCHANGED runs

\* line 307
DoclingReturn ==
    /\ pc = "docling_items"
    /\ Len(trace) >= docling_title
    /\ pc' = "done"
    /\ UNCHANGED << LIBRARIES_STATUS, method, structure, current_section,
                    current_subsection, page_num, table_num, last, trace,
                    raised, docling_title, seed >>
    /\ UNCHANGED runs

Next ==
    \/ MainCheckLibraries
    \/ PDFAnalyzerInit
    \/ AnalyzeNoMethod
    \/ PymupdfOpen
    \/ PymupdfSpan
    \/ PymupdfImageBlock
    \/ PymupdfTable
    \/ PymupdfNextPage
    \/ PdfplumberOpen
    \/ PdfplumberPage
    \/ PdfplumberReturn
    \/ DoclingOpen
    \/ DoclingItem
    \/ DoclingReturn

Spec == Init /\ [][Next]_vars

\* ------------------------------------------- a pass as a function of events
\* The loop bodies over an abstract event stream: a Section heading, a
\* subsection-level heading, body text, a table, an image.
EventKinds == {"section", "subheading", "text", "table", "image"}

\* lines 124, 133: a span that the thresholds put at the level of the event
SpanOf(kind) ==
    IF kind = "section" THEN [size |-> <<section_font_min, 1>>, flags |-> 0]
    ELSE IF kind = "subheading" THEN [size |-> <<section_font_min, 0>>, flags |-> 0]
    ELSE [size |-> <<subsection_bold_font_min, 0>>, flags |-> 0]

\* lines 262-265, 341-343: a Docling item of the level of the event
ItemOf(kind) ==
    IF kind = "section" THEN [label |-> "section_header", level |-> 1, text |-> None]
    ELSE IF kind = "subheading"
    THEN [label |-> "section_header", level |-> 2, text |-> None]
    ELSE IF kind = "text" THEN [label |-> "paragraph", level |-> 0, text |-> None]
    ELSE IF kind = "table" THEN [label |-> "table", level |-> 0, text |-> None]
    ELSE [label |-> "figure", level |-> 0, text |-> None]

\* the k-th event of document r
EventOf(kind, k, r) ==
    [kind |-> kind,
     content |-> IF kind = "table"
                 THEN [type |-> "table", caption |-> <<"Tableau", k, r>>,
                       headers |-> <<>>, rows |-> 0]
                 ELSE IF kind = "image"
                 THEN [image |-> [description |-> <<"Image", k, r>>,
                                  position |-> <<"page", 1>>]]
                 ELSE Paragraph(<<"span", k, r>>)]

\* lines 109-170: the body of the PyMuPDF loop for one event
PymupdfStep(f, ev) ==
    LET attach(content) ==
            [f EXCEPT !.sections = _add_content(content, f.sections, f.current_section,
                                                f.current_subsection).sections]
        span == SpanOf(ev.kind)
        cls  == Classify(span.size, span.flags, f.current_section)
    IN  IF ev.kind \in {"table", "image"} THEN attach(ev.content)
        ELSE IF cls = "section"
        THEN [sections |-> AppendSection(f.sections, ev.content.text),
              current_section |-> Len(f.sections) + 1,
              current_subsection |-> None]
        ELSE IF cls = "subsection"
        THEN [sections |-> AppendSubsection(f.sections, f.current_section,
                                            NewSubsection(ev.content.text)),
              current_section |-> f.current_section,
              current_subsection |->
                  << f.current_section,
                     Len(f.sections[f.current_section].subsections) + 1 >>]
        ELSE attach(ev.content)

\* variant: a Section heading leaves current_subsection as it was (no
\* line 271)
DoclingStep_stale(f, ev) ==
    LET item == [ItemOf(ev.kind) EXCEPT !.text = ev.content]
    IN  IF item.label \in {"section_header", "header", "title"}
        THEN IF _is_main_title(item)
             THEN [sections |-> AppendSection(f.sections, ev.content.text),
                   current_section |-> Len(f.sections) + 1,
                   current_subsection |-> f.current_subsection]
             ELSE LET s1  == IF f.current_section = 0
                             THEN AppendSection(f.sections, <<"Section principale">>)
                             ELSE f.sections
                      sec == IF f.current_section = 0 THEN Len(s1)
                             ELSE f.current_section
                  IN  [sections |-> AppendSubsection(s1, sec,
                                                     NewSubsection(ev.content.text)),
                       current_section |-> sec,
                       current_subsection |-> << sec, Len(s1[sec].subsections) + 1 >>]
        ELSE [f EXCEPT !.sections = _add_content(ev.content, f.sections,
                                                 f.current_section,
                                                 f.current_subsection).sections]

\* lines 261-305: the body of the Docling loop for one event
DoclingStep(f, ev) ==
    LET item == [ItemOf(ev.kind) EXCEPT !.text = ev.content]
    IN  IF item.label \in {"section_header", "header", "title"}
        THEN IF _is_main_title(item)
             THEN [sections |-> AppendSection(f.sections, ev.content.text),
                   current_section |-> Len(f.sections) + 1,
                   current_subsection |-> None]
             ELSE LET s1  == IF f.current_section = 0
                             THEN AppendSection(f.sections, <<"Section principale">>)
                             ELSE f.sections
                      sec == IF f.current_section = 0 THEN Len(s1)
                             ELSE f.current_section
                  IN  [sections |-> AppendSubsection(s1, sec,
                                                     NewSubsection(ev.content.text)),
                       current_section |-> sec,
                       current_subsection |-> << sec, Len(s1[sec].subsections) + 1 >>]
        ELSE [f EXCEPT !.sections = _add_content(ev.content, f.sections,
                                                 f.current_section,
                                                 f.current_subsection).sections]

\* variant: structure, current_section and current_subsection are kept on
\* the analyzer instance, which the calls share
FrameOf_shared(r) == 1

\* lines 88-101: structure, current_section and current_subsection are
\* locals of the call; the frame that call r reads and writes
FrameOf(r) == r

\* ---------------------------------------------------- two concurrent calls
\* the main program at rest while the two calls below run
MainIdle ==
    /\ LIBRARIES_STATUS = [b \in Backends |-> TRUE]
    /\ pc = "main" /\ method = None /\ structure = None
    /\ current_section = 0 /\ current_subsection = None
    /\ page_num = 0 /\ table_num = 0 /\ last = None /\ trace = <<>>
    /\ raised = None /\ docling_title = 0 /\ seed = None

MainVars == << LIBRARIES_STATUS, pc, method, structure, current_section,
               current_subsection, page_num, table_num, last, trace, raised,
               docling_title, seed >>

InitConc == MainIdle /\ runs = InitRuns

\* one loop iteration of call r of _analyze_with_pymupdf on its own document
ConcStep(r) ==
    /\ Len(runs[r].events) < MaxItems
    /\ \E kind \in EventKinds :
         LET ev == EventOf(kind, Len(runs[r].events) + 1, r)
             f  == FrameOf(r)
             r1 == [runs EXCEPT ![r].events = Append(@, ev)]
         IN  runs' = [r1 EXCEPT ![f].frame = PymupdfStep(r1[f].frame, ev)]
    /\ UNCHANGED MainVars

NextConc ==
    \/ ConcStep(1)
    \/ ConcStep(2)

SpecConc == InitConc /\ [][NextConc]_vars

\* ------------------------------------- the two loops on one event stream
\* the PyMuPDF loop (call 1) and the Docling loop (call 2) take the same event
PairStep ==
    /\ Len(runs[1].events) < MaxItems
    /\ \E kind \in EventKinds :
         LET ev == EventOf(kind, Len(runs[1].events) + 1, 1)
         IN  runs' = [r \in 1..2 |->
                        [events |-> Append(runs[r].events, ev),
                         frame  |-> IF r = 1 THEN PymupdfStep(runs[r].frame, ev)
                                    ELSE DoclingStep(runs[r].frame, ev)]]
    /\ UNCHANGED MainVars

NextPair ==
    \/ PairStep

SpecPair == InitConc /\ [][NextPair]_vars

\* =================================================================
\* Properties
\* =================================================================
PymupdfPass == method = <<"pymupdf">> /\ structure # None
TreePass    == method \in {<<"pymupdf">>, <<"docling">>} /\ structure # None

\* a title that is the text of a primitive
IsHeadingTitle(t) == t # <<>> /\ t[1] = "span"
NodeIsHeading(node) == IsHeadingTitle(node.title)
Titles(nodes) == [i \in 1..Len(nodes) |-> nodes[i].title]

\* the texts of the primitives lo..hi of the history that took branch cls
TraceTexts(cls, lo, hi) ==
    LET Took(e) == e.cls = cls
        sel == SelectSeq(SubSeq(trace, lo, hi), Took)
    IN  [i \in 1..Len(sel) |-> sel[i].content.text]

DefaultPair(content) ==
    << [title |-> <<"Contenu principal">>,
        subsections |-> << [title |-> <<"Introduction">>, content |-> content] >>] >>

\* C1: the structuring pass never raises; in particular _add_content never
\* indexes [-1] of an empty sections or subsections list, and a pass that
\* ended has returned a document.
C1_Totality ==
    /\ raised # <<"IndexError">>
    /\ TreePass => (raised = None /\ pc # "analysis_error")
    /\ (pc = "done" /\ method = <<"pymupdf">>) => "sections" \in DOMAIN structure

\* a PyMuPDF pass that started with a table or an image and returned
C1_Witness ==
    /\ PymupdfPass /\ pc = "done" /\ raised = None
    /\ Len(trace) >= 2
    /\ trace[1].type \in {"table", "image"}

\* C2: a non-empty span becomes a Section exactly when size > 16 or (bold
\* and size > 12); otherwise a Subsection exactly when (size > 14 or (bold
\* and size > 11)) and a section is current; otherwise body content.  All
\* comparisons are strict and the section rule comes first.
C2_Classification ==
    [][ (pc = "pymupdf_blocks" /\ Len(trace') = Len(trace) + 1
           /\ last'.type = "text" /\ last'.text # <<>>)
        => LET t    == last'.text
               sz   == last'.size
               bold == (last'.flags \div 16) % 2 = 1
               above(n) == sz[1] > n \/ (sz[1] = n /\ sz[2] > 0)
               secRule == above(16) \/ (bold /\ above(12))
               subRule == (above(14) \/ (bold /\ above(11))) /\ current_section # 0
               old  == structure.sections
               new  == structure'.sections
               madeSection ==
                   /\ new = Append(old, [title |-> t, subsections |-> <<>>])
                   /\ current_section' = Len(new)
                   /\ current_subsection' = None
               madeSub ==
                   /\ current_section # 0
                   /\ new = [old EXCEPT ![current_section].subsections =
                                Append(@, [title |-> t, content |-> <<>>])]
                   /\ current_section' = current_section
                   /\ current_subsection' =
                        << current_section, Len(new[current_section].subsections) >>
               madeBody ==
                   /\ current_section' = current_section
                   /\ current_subsection' = current_subsection
                   /\ \A i \in 1..Len(new) :
                        /\ new[i].title # t
                        /\ \A j \in 1..Len(new[i].subsections) :
                             new[i].subsections[j].title # t
                   /\ \E i \in 1..Len(new) : \E j \in 1..Len(new[i].subsections) :
                        LET c == new[i].subsections[j].content
                        IN  c # <<>> /\ c[Len(c)] = [text |-> t]
           IN  /\ madeSection <=> secRule
               /\ madeSub <=> (~secRule /\ subRule)
               /\ madeBody <=> (~secRule /\ ~subRule) ]_vars

\* a plain span of exactly 16pt under a section became a subsection
C2_Witness ==
    /\ PymupdfPass
    /\ last # None /\ last.type = "text" /\ last.text # <<>>
    /\ last.size = <<16, 0>> /\ last.flags = 0
    /\ current_subsection # None
    /\ structure.sections[current_subsection[1]]
         .subsections[current_subsection[2]].title = last.text

\* C3: the heading-derived sections are the Section-classified primitives in
\* input order, and the heading-derived subsections of each section are the
\* Subsection-classified primitives between its heading and the next one, in
\* input order.
C3_Ordering ==
    PymupdfPass =>
      LET secs == structure.sections
          H    == SelectSeq(secs, NodeIsHeading)
          pos(i) == H[i].title[2]
          end(i) == IF i < Len(H) THEN pos(i + 1) - 1 ELSE Len(trace)
      IN  /\ Titles(H) = TraceTexts("section", 1, Len(trace))
          /\ \A i \in 1..Len(H) :
               Titles(SelectSeq(H[i].subsections, NodeIsHeading))
                 = TraceTexts("subsection", pos(i) + 1, end(i))
          /\ \A i \in 1..Len(secs) :
               ~NodeIsHeading(secs[i])
                 => (i = 1 /\ SelectSeq(secs[i].subsections, NodeIsHeading) = <<>>)

\* section, subsection, section
C3_Witness ==
    /\ PymupdfPass
    /\ Len(trace) = 3
    /\ trace[1].cls = "section" /\ trace[2].cls = "subsection"
    /\ trace[3].cls = "section"
    /\ Len(structure.sections) = 2

\* C4: while no Section heading has been seen, the tree is empty until the
\* first content item and afterwards is exactly one "Contenu principal" /
\* "Introduction" pair holding every content item so far in input order;
\* no second default pair is ever created.
C4_OrphanAttachment ==
    TreePass =>
      LET secs == structure.sections
      IN  /\ current_section = 0
             => IF Kept(trace) = <<>> THEN secs = <<>>
                ELSE secs = DefaultPair(Kept(trace))
          /\ \A i \in 1..Len(secs) :
               /\ secs[i].title = <<"Contenu principal">> => i = 1
               /\ \A j \in 1..Len(secs[i].subsections) :
                    secs[i].subsections[j].title = <<"Introduction">>
                      => (i = 1 /\ j = 1 /\ secs[1].title = <<"Contenu principal">>)

\* two orphan items, the second a demoted subsection-level heading
C4_Witness ==
    /\ PymupdfPass /\ current_section = 0
    /\ Len(Kept(trace)) >= 2
    /\ trace[1].type = "table"
    /\ last.type = "text" /\ last.text # <<>>
    /\ IsSubsectionLevel(last.size, last.flags)

\* C5: a span at subsection level but below section level, processed while
\* current_section is unset, creates no Section and no Subsection: it is
\* appended as a paragraph to the default pair (created if the tree was
\* empty) and the pointers stay unset.
C5_Demotion ==
    [][ ( /\ pc = "pymupdf_blocks" /\ current_section = 0
          /\ Len(trace') = Len(trace) + 1
          /\ last'.type = "text" /\ last'.text # <<>>
          /\ LET sz   == last'.size
                 bold == (last'.flags \div 16) % 2 = 1
                 above(n) == sz[1] > n \/ (sz[1] = n /\ sz[2] > 0)
             IN  /\ above(14) \/ (bold /\ above(11))
                 /\ ~ (above(16) \/ (bold /\ above(12))) )
        => LET old  == structure.sections
               had  == IF old = <<>> THEN <<>>
                       ELSE old[1].subsections[1].content
           IN  /\ current_section' = 0
               /\ current_subsection' = None
               /\ raised' = None
               /\ structure'.sections
                    = DefaultPair(Append(had, [text |-> last'.text])) ]_vars

\* a demoted heading after orphan content created the default section
C5_Witness ==
    /\ PymupdfPass /\ current_section = 0
    /\ Len(trace) >= 2 /\ trace[1].cls = "body"
    /\ last.type = "text" /\ last.text # <<>>
    /\ last.size = <<16, 0>> /\ last.flags = 0
    /\ Len(structure.sections[1].subsections[1].content) >= 2

\* C6: while a section is current and no Subsection heading followed its
\* heading, the section has no subsection until the first content item and
\* afterwards exactly one, titled "Contenu", holding the content items since
\* the heading in input order.
C6_DefaultSubsection ==
    (PymupdfPass /\ current_section # 0 /\ current_subsection = None)
    => LET sec   == structure.sections[current_section]
           since == Kept(SubSeq(trace, sec.title[2] + 1, Len(trace)))
       IN  /\ current_section = Len(structure.sections)
           /\ IF since = <<>> THEN sec.subsections = <<>>
              ELSE sec.subsections = << [title |-> <<"Contenu">>, content |-> since] >>

\* heading, paragraph, table
C6_Witness ==
    /\ PymupdfPass /\ Len(structure.sections) = 1
    /\ Len(trace) = 3
    /\ trace[1].cls = "section"
    /\ trace[2].type = "text" /\ trace[2].cls = "body"
    /\ trace[3].type = "table"
    /\ Len(structure.sections[1].subsections) = 1
    /\ Len(structure.sections[1].subsections[1].content) = 2

\* C7: the sections list is empty for an empty primitive sequence and holds
\* at least one section once a non-empty span, a table or an image was
\* processed.
C7_NonEmpty ==
    PymupdfPass =>
      /\ trace = <<>> => structure.sections = <<>>
      /\ (\E k \in 1..Len(trace) : trace[k].cls # "skip")
           => Len(structure.sections) >= 1

\* a returned pass whose only content was an image
C7_Witness ==
    /\ PymupdfPass /\ pc = "done"
    /\ Len(trace) = 1 /\ trace[1].type = "image"
    /\ Len(structure.sections) = 1

\* C8 (as stated): the backend is the first available one in the order
\* pymupdf, pdfplumber, docling, and whenever no backend is usable the error
\* is the startup error of main(), raised before a document is analysed: no
\* analysis is ever requested of an analyzer without a method.
C8_NoBackendErrorAtStartup ==
    /\ pc \notin {"main", "idle", "library_error"}
         => method = (IF LIBRARIES_STATUS["pymupdf"] THEN <<"pymupdf">>
                      ELSE IF LIBRARIES_STATUS["pdfplumber"] THEN <<"pdfplumber">>
                      ELSE <<"docling">>)
    /\ pc \in {"analyze_pdf", "analysis_error"} => method # None

MetadataKeys == {"num_pages", "author", "subject", "extraction_date",
                 "extraction_method"}

TreeShape ==
    /\ DOMAIN structure = {"title", "metadata", "sections"}
    /\ \A i \in 1..Len(structure.sections) :
         /\ DOMAIN structure.sections[i] = {"title", "subsections"}
         /\ \A j \in 1..Len(structure.sections[i].subsections) :
              DOMAIN structure.sections[i].subsections[j] = {"title", "content"}

\* C9 (as stated): whichever backend produced it, the document has the keys
\* title, metadata, sections, the nested section/subsection shape, and a
\* metadata object carrying all five entries.
C9_SameSchema ==
    structure # None => (TreeShape /\ DOMAIN structure.metadata = MetadataKeys)

\* C9 (amended): the tree shape is the same on every path and metadata
\* always carries num_pages, extraction_date and extraction_method; author
\* and subject are present on the PyMuPDF path, on the pdfplumber path
\* exactly when the file has metadata, and never on the Docling path.
C9_SchemaPerBackend ==
    structure # None =>
      /\ TreeShape
      /\ {"num_pages", "extraction_date", "extraction_method"}
           \subseteq DOMAIN structure.metadata
      /\ DOMAIN structure.metadata \subseteq MetadataKeys
      /\ method = <<"pymupdf">> => DOMAIN structure.metadata = MetadataKeys
      /\ method = <<"pdfplumber">>
           => ((DOMAIN structure.metadata = MetadataKeys) <=> seed.has_metadata)
      /\ method = <<"pdfplumber">>
           => ({"author", "subject"} \cap DOMAIN structure.metadata = {}
                 <=> ~seed.has_metadata)
      /\ method = <<"docling">>
           => {"author", "subject"} \cap DOMAIN structure.metadata = {}

\* a returned Docling document with a section, a subsection and content
C9_Witness ==
    /\ method = <<"docling">> /\ pc = "done"
    /\ \E i \in 1..Len(structure.sections) :
         \E j \in 1..Len(structure.sections[i].subsections) :
            structure.sections[i].subsections[j].content # <<>>
    /\ "author" \notin DOMAIN structure.metadata

Placeholders == { <<"Document sans titre">>, <<"Document PDF">> }

\* a non-empty text was handed to the pass
SomeText ==
    \E k \in 1..Len(trace) :
       trace[k].type \in {"text", "paragraph", "title", "section_header"}
         /\ trace[k].content.text # <<>>

\* C10 (as stated): on every path the title is the metadata title when
\* that is non-empty, and it is the placeholder only when the document has
\* no text at all.
C10_TitleEveryBackend ==
    structure # None =>
      /\ (method = <<"pymupdf">> /\ seed.title # <<>>)
           => structure.title = seed.title
      /\ structure.title \in Placeholders => ~SomeText

\* C10 (amended): PyMuPDF: the metadata title when non-empty, otherwise the
\* first 100 characters of the first page's text cut at the first line
\* break, and "Document sans titre" exactly when that page has no text.
\* pdfplumber: the 'Title' entry of the file's metadata as stored, and
\* "Document PDF" when the file has no metadata or no such entry; never
\* derived from text.  Docling: the text of the first item labelled title
\* or document_title, and "Document sans titre" when there is none.
C10_TitleResolution ==
    structure # None =>
      /\ method = <<"pymupdf">> =>
           LET ft == seed.first_text
               k  == IF ft.nl > 0 /\ ft.nl <= 100 /\ ft.nl <= ft.len THEN ft.nl - 1
                     ELSE IF ft.len < 100 THEN ft.len ELSE 100
           IN  /\ seed.title # <<>> => structure.title = seed.title
               /\ (seed.title = <<>> /\ ft.len > 0)
                    => structure.title = (IF k = 0 THEN <<>> ELSE <<"first_text", k>>)
               /\ seed.title = <<>>
                    => (structure.title = <<"Document sans titre">> <=> ft.len = 0)
      /\ method = <<"pdfplumber">> =>
           structure.title =
             (IF seed.has_metadata /\ seed.Title = <<"meta_title">> THEN <<"meta_title">>
              ELSE IF seed.has_metadata /\ seed.Title = <<"">> THEN <<>>
              ELSE <<"Document PDF">>)
      /\ method = <<"docling">> =>
           /\ structure.title = (IF seed.title_pos = 0 THEN <<"Document sans titre">>
                                 ELSE <<"span", seed.title_pos>>)
           /\ \A k \in 1..Len(trace) :
                trace[k].type \in {"title", "document_title"}
                  => (seed.title_pos # 0 /\ k >= seed.title_pos)
           /\ (seed.title_pos # 0 /\ Len(trace) >= seed.title_pos)
                => /\ trace[seed.title_pos].type \in {"title", "document_title"}
                   /\ trace[seed.title_pos].content.text = structure.title

\* no metadata title, a first page of 120 characters whose first line break
\* comes after the 100th: the title is the first 100 characters
C10_Witness ==
    /\ PymupdfPass /\ pc = "done"
    /\ seed.title = <<>> /\ seed.first_text = [len |-> 120, nl |-> 101]
    /\ structure.title = <<"first_text", 100>>

\* C12: a Section heading unsets current_subsection and becomes the current
\* section, and from then on every step leaves all sections but the newest
\* one untouched: content never attaches under an earlier section.
C12_SectionTerminatesSubsection ==
    [][ (TreePass /\ structure' # None)
        => LET old == structure.sections
               new == structure'.sections
           IN  /\ (Len(trace') = Len(trace) + 1
                     /\ trace'[Len(trace')].cls = "section")
                    => /\ current_subsection' = None
                       /\ current_section' = Len(new)
                       /\ Len(new) = Len(old) + 1
                       /\ new[Len(new)].subsections = <<>>
               /\ current_section' # 0
                    => \A i \in 1..(Len(new) - 1) :
                         i <= Len(old) /\ new[i] = old[i] ]_vars

\* orphan content, a Section heading, content: the later item is under the
\* new section, not in the stale "Introduction" subsection
C12_Witness ==
    /\ PymupdfPass /\ Len(trace) = 3
    /\ trace[1].cls = "body" /\ trace[2].cls = "section" /\ trace[3].cls = "body"
    /\ current_section = 2 /\ current_subsection = None
    /\ Len(structure.sections[1].subsections[1].content) = 1
    /\ Len(structure.sections[2].subsections) = 1
    /\ structure.sections[2].subsections[1].content = << trace[3].content >>

\* the content lists of a tree, concatenated in tree order
RECURSIVE FlattenSubs(_)
FlattenSubs(subs) ==
    IF subs = <<>> THEN <<>>
    ELSE Head(subs).content \o FlattenSubs(Tail(subs))

RECURSIVE Flatten(_)
Flatten(secs) ==
    IF secs = <<>> THEN <<>>
    ELSE FlattenSubs(Head(secs).subsections) \o Flatten(Tail(secs))

\* C13: the content lists concatenated in tree order are exactly the
\* body-classified primitives of the input, in input order, each once.
C13_ContentPreserved ==
    structure # None => Flatten(structure.sections) = Kept(trace)

\* three content items spread over two sections
C13_Witness ==
    /\ PymupdfPass /\ Len(structure.sections) = 2
    /\ Len(trace) = 3 /\ Len(Kept(trace)) = 2
    /\ trace[1].type = "table" /\ trace[2].cls = "section"
    /\ trace[3].type = "text" /\ trace[3].cls = "body"
    /\ Flatten(structure.sections) = << trace[1].content, trace[3].content >>

IsPrefix(s, t) == Len(s) <= Len(t) /\ SubSeq(t, 1, Len(s)) = s

ContentCount(secs) == Len(Flatten(secs))
RECURSIVE SubsectionCount(_)
SubsectionCount(secs) ==
    IF secs = <<>> THEN 0
    ELSE Len(Head(secs).subsections) + SubsectionCount(Tail(secs))

\* C14: every step of a pass extends the tree at its ends only: at most one
\* section, one subsection and one content item are added, each at the end
\* of its list, and every node that existed keeps its title, its place and
\* the items it had.
C14_AppendOnly ==
    [][ (TreePass /\ structure' # None)
        => LET old == structure.sections
               new == structure'.sections
           IN  /\ Len(old) <= Len(new) /\ Len(new) <= Len(old) + 1
               /\ SubsectionCount(new) <= SubsectionCount(old) + 1
               /\ ContentCount(new) <= ContentCount(old) + 1
               /\ \A i \in 1..Len(old) :
                    /\ new[i].title = old[i].title
                    /\ Len(old[i].subsections) <= Len(new[i].subsections)
                    /\ \A j \in 1..Len(old[i].subsections) :
                         /\ new[i].subsections[j].title = old[i].subsections[j].title
                         /\ IsPrefix(old[i].subsections[j].content,
                                     new[i].subsections[j].content)
               /\ structure'.title = structure.title
               /\ structure'.metadata = structure.metadata ]_vars

\* a section with two explicit subsections
C14_Witness ==
    /\ PymupdfPass /\ Len(trace) = 3
    /\ trace[1].cls = "section" /\ trace[2].cls = "subsection"
    /\ trace[3].cls = "subsection"
    /\ Len(structure.sections[1].subsections) = 2

\* C16 (as stated): on every path, a text primitive whose text is empty
\* leaves the tree and both pointers unchanged.
C16_EmptyTextSkipped ==
    [][ ( /\ TreePass
          /\ Len(trace') = Len(trace) + 1
          /\ last'.type \in {"text", "paragraph", "title", "section_header"}
          /\ last'.text = <<>> )
        => /\ structure' = structure
           /\ current_section' = current_section
           /\ current_subsection' = current_subsection ]_vars

\* C17 (as stated): on the pdfplumber path no extracted text becomes a
\* title and the pass creates no structural node of its own: the only
\* nodes are those of the attachment rule.
C17_NoAdapterNodes ==
    (method = <<"pdfplumber">> /\ structure # None)
    => \A i \in 1..Len(structure.sections) :
         /\ ~NodeIsHeading(structure.sections[i])
         /\ structure.sections[i].title = <<"Contenu principal">>

\* C17 (amended): on the pdfplumber path no text is classified: every
\* non-empty text chunk is a paragraph content item and no text is ever a
\* Section or Subsection title; the only structural nodes are the one
\* "Page n" section with its one "Contenu" subsection that the pass creates
\* for every page.
C17_DegradedAdapter ==
    (method = <<"pdfplumber">> /\ structure # None)
    => LET secs == structure.sections
           flat == Flatten(secs)
       IN  /\ \A i \in 1..Len(secs) :
                /\ secs[i].title = <<"Page", i>>
                /\ Len(secs[i].subsections) = 1
                /\ secs[i].subsections[1].title = <<"Contenu">>
           /\ \A k \in 1..Len(trace) :
                trace[k].type = "text"
                  => /\ trace[k].cls \in {"body", "skip"}
                     /\ trace[k].cls = "skip" <=> trace[k].content.text = <<>>
                     /\ trace[k].cls = "body"
                          => \E m \in 1..Len(flat) : flat[m] = trace[k].content

\* a returned two-page document with paragraphs on both pages
C17_Witness ==
    /\ method = <<"pdfplumber">> /\ pc = "done"
    /\ Len(structure.sections) = 2
    /\ \A i \in 1..2 :
         \E m \in 1..Len(structure.sections[i].subsections[1].content) :
            "text" \in DOMAIN structure.sections[i].subsections[1].content[m]

\* C18: current_section, when set, is the last section and
\* current_subsection, when set, is the last subsection of it; with no
\* current section the tree is empty or the one default pair; with a current
\* section and no current subsection the section has at most one
\* subsection, the default one.
C18_PointerInvariant ==
    TreePass =>
      LET secs == structure.sections
      IN  /\ current_section # 0 => current_section = Len(secs)
          /\ current_subsection # None
               => /\ current_section # 0
                  /\ current_subsection
                       = << current_section, Len(secs[current_section].subsections) >>
                  /\ Len(secs[current_section].subsections) >= 1
          /\ current_section = 0
               => /\ current_subsection = None
                  /\ \/ secs = <<>>
                     \/ /\ Len(secs) = 1
                        /\ secs[1].title = <<"Contenu principal">>
                        /\ Len(secs[1].subsections) = 1
                        /\ secs[1].subsections[1].title = <<"Introduction">>
          /\ (current_section # 0 /\ current_subsection = None)
               => /\ Len(secs[current_section].subsections) <= 1
                  /\ \A j \in 1..Len(secs[current_section].subsections) :
                       secs[current_section].subsections[j].title = <<"Contenu">>

\* the default pair, then a section with an explicit subsection
C18_Witness ==
    /\ PymupdfPass /\ Len(trace) = 3
    /\ trace[1].cls = "body" /\ trace[2].cls = "section"
    /\ trace[3].cls = "subsection"
    /\ current_section = 2 /\ current_subsection = <<2, 1>>

IsDefaultSubsection(sub) == sub.title \in { <<"Contenu">>, <<"Introduction">> }

\* C19: on the PyMuPDF pass a heading-derived section has no subsection
\* exactly when no content item and no Subsection heading was processed
\* since its heading and before the next Section heading, and every
\* auto-created default subsection holds at least one content item.
C19_EmptySections ==
    PymupdfPass =>
      LET secs == structure.sections
          H    == SelectSeq(secs, NodeIsHeading)
          pos(i) == H[i].title[2]
          end(i) == IF i < Len(H) THEN pos(i + 1) - 1 ELSE Len(trace)
      IN  /\ \A i \in 1..Len(H) :
               H[i].subsections = <<>>
                 <=> ~ \E k \in (pos(i) + 1)..end(i) :
                          trace[k].cls \in {"body", "subsection"}
          /\ \A i \in 1..Len(secs) : \A j \in 1..Len(secs[i].subsections) :
               IsDefaultSubsection(secs[i].subsections[j])
                 => secs[i].subsections[j].content # <<>>

\* a heading directly followed by another heading, then content
C19_Witness ==
    /\ PymupdfPass /\ pc = "done" /\ Len(trace) = 3
    /\ trace[1].cls = "section" /\ trace[2].cls = "section"
    /\ trace[3].cls = "body"
    /\ structure.sections[1].subsections = <<>>
    /\ Len(structure.sections[2].subsections) = 1

\* paragraphs before tables before images
ItemRank(item) ==
    IF "text" \in DOMAIN item THEN 1
    ELSE IF "type" \in DOMAIN item THEN 2 ELSE 3

\* C20: on the pdfplumber pass there is one section per page processed, so
\* num_pages sections on return; section i is titled "Page i" and has
\* exactly one subsection, also for a page without content; a page step
\* appends one section holding that page's paragraphs, then its tables,
\* then its images, and leaves the sections of the earlier pages unchanged.
C20_PagePerSection ==
    [][ (method = <<"pdfplumber">> /\ structure' # None)
        => LET secs == structure'.sections
           IN  /\ Len(secs) = page_num'
               /\ page_num' <= structure'.metadata.num_pages
               /\ pc' = "done" => Len(secs) = structure'.metadata.num_pages
               /\ \A i \in 1..Len(secs) :
                    /\ secs[i].title = <<"Page", i>>
                    /\ Len(secs[i].subsections) = 1
                    /\ LET c == secs[i].subsections[1].content
                       IN  /\ \A m \in 1..(Len(c) - 1) :
                                ItemRank(c[m]) <= ItemRank(c[m + 1])
                           /\ \A m \in 1..Len(c) :
                                ItemRank(c[m]) = 3
                                  => c[m].image.position = <<"page", i>>
               /\ (structure # None /\ page_num' = page_num + 1)
                    => /\ SubSeq(secs, 1, Len(secs) - 1) = structure.sections
                       /\ secs[Len(secs)].subsections[1].content
                            = Kept(SubSeq(trace', Len(trace) + 1, Len(trace'))) ]_vars

\* an empty first page and a second page with a paragraph, a table and an
\* image
C20_Witness ==
    /\ method = <<"pdfplumber">> /\ pc = "done"
    /\ structure.metadata.num_pages = 2 /\ Len(structure.sections) = 2
    /\ structure.sections[1].subsections[1].content = <<>>
    /\ Len(structure.sections[2].subsections[1].content) = 3
    /\ ItemRank(structure.sections[2].subsections[1].content[1]) = 1
    /\ ItemRank(structure.sections[2].subsections[1].content[3]) = 3

\* ------------------------------------------------------------------ C11
\* one call alone on the events it consumed
RECURSIVE RunAlone(_)
RunAlone(events) ==
    IF events = <<>> THEN InitFrame
    ELSE PymupdfStep(RunAlone(SubSeq(events, 1, Len(events) - 1)),
                     events[Len(events)])

\* C11: two passes on different documents whose loop iterations interleave
\* in any order each hold, at every moment, exactly the tree and the pointers
\* (current_section, current_subsection) that the pass alone would hold after
\* the same events: nothing one call writes is read or changed by the other.
C11_Independence ==
    \A r \in 1..2 : runs[r].frame = RunAlone(runs[r].events)

\* both calls are under way, one inside a section it opened first, the other
\* with orphan content before its first section
C11_Witness ==
    /\ Len(runs[1].events) >= 2 /\ Len(runs[2].events) >= 2
    /\ runs[1].events[1].kind = "section" /\ runs[1].events[2].kind = "text"
    /\ runs[2].events[1].kind = "text" /\ runs[2].events[2].kind = "section"
    /\ runs[1].frame.current_section = 1
    /\ runs[2].frame.current_section = 2
    /\ Len(runs[2].frame.sections) = 2

\* ------------------------------------------------------------------ C15
\* a subsection-level heading that arrived while no section was current
OrphanSubheading(events) ==
    \E k \in 1..Len(events) :
        /\ events[k].kind = "subheading"
        /\ \A j \in 1..(k - 1) : events[j].kind # "section"

\* the content items of the events, in order
RECURSIVE Contents(_)
Contents(events) ==
    IF events = <<>> THEN <<>>
    ELSE << Head(events).content >> \o Contents(Tail(events))

\* C15 as stated: on the same event stream the PyMuPDF loop and the Docling
\* loop build the same tree, whatever the stream.
C15_SameTree ==
    runs[1].frame.sections = runs[2].frame.sections

\* C15: on the same event stream the PyMuPDF loop and the Docling loop hold
\* the same tree and the same pointers as long as no subsection-level heading
\* has arrived while no section was current.  When the first such heading
\* arrives after orphan content only, PyMuPDF appends it as a paragraph to
\* "Contenu principal"/"Introduction", while Docling opens a section
\* "Section principale" with the heading as its subsection.
C15_SameTreeUnlessOrphanSubheading ==
    LET events == runs[1].events
        n      == Len(events)
        before == SubSeq(events, 1, n - 1)
    IN  /\ ~OrphanSubheading(events) => runs[1].frame = runs[2].frame
        /\ (n > 0 /\ events[n].kind = "subheading" /\ ~OrphanSubheading(before)
              /\ \A j \in 1..(n - 1) : events[j].kind # "section")
           => /\ runs[1].frame.sections = DefaultPair(Contents(events))
              /\ runs[1].frame.current_section = 0
              /\ runs[2].frame.sections =
                    (IF n = 1 THEN <<>> ELSE DefaultPair(Contents(before)))
                    \o << [title |-> <<"Section principale">>,
                           subsections |->
                               << NewSubsection(events[n].content.text) >>] >>
              /\ runs[2].frame.current_section = Len(runs[2].frame.sections)

\* both loops have taken a paragraph with no section open and then a
\* subsection-level heading: one section with two paragraphs on the PyMuPDF
\* side, two sections on the Docling side
C15_Witness ==
    /\ Len(runs[1].events) = 2
    /\ runs[1].events[1].kind = "text"
    /\ runs[1].events[2].kind = "subheading"
    /\ Len(runs[1].frame.sections) = 1
    /\ Len(runs[1].frame.sections[1].subsections[1].content) = 2
    /\ Len(runs[2].frame.sections) = 2
    /\ runs[2].frame.current_subsection = << 2, 1 >>

====
